---- MODULE Spec2Model ----
(***************************************************************************)
(* Model of src/lib/balance-engine.ts (class BalanceEngine).               *)
(*                                                                         *)
(* The engine is a set of static, synchronous functions over arrays of     *)
(* plain records.  The model is a caller that builds an input snapshot     *)
(* (accounts, contacts, invoices, transactions, a balances Map), invokes   *)
(* one engine function on it, and takes the returned value before it       *)
(* touches the snapshot again.  `ret` holds the value the call returned.   *)
(*                                                                         *)
(* Amounts are exact integers (cents): 0.01 of the source is 1 here.       *)
(* Record fields the engine never reads (id of a transaction or invoice,   *)
(* date, dueDate, name, code, category) are left out of the records.       *)
(* A JavaScript string the engine only compares with === is a TLA+ string; *)
(* a description, which the engine lower-cases and searches, is a sequence *)
(* of one-character strings.  A Map<string, number> is a function whose    *)
(* DOMAIN is the key set.                                                  *)
(*                                                                         *)
(* `kept` holds the Maps earlier calls returned, each with the identity of *)
(* the Map object and the inputs of its call.  `frames` holds, for the     *)
(* callers that run calls step by step, the locals of each invocation.     *)
(*                                                                         *)
(* The last part models createInvoice and deleteInvoice of                 *)
(* src/lib/actions/invoices.ts over the tables invoices and invoice_items  *)
(* (`invoicesTable`, `invoiceItemsTable`); `inserted` counts the invoice   *)
(* rows ever inserted and gives each new row its id.                       *)
(***************************************************************************)
EXTENDS Integers, Sequences, FiniteSets, TLC

VARIABLES accounts, contacts, invoices, transactions, balances, ret,
          kept, frames, invoicesTable, invoiceItemsTable, inserted

\* the tables of the database the invoice actions work on, and the number
\* of invoice rows ever inserted
database == <<invoicesTable, invoiceItemsTable, inserted>>

vars ==
  <<accounts, contacts, invoices, transactions, balances, ret, kept, frames,
    database>>

-----------------------------------------------------------------------------
(* Bounds of the model *)

\* transactions of the ledger of SpecAccount
MaxTxns == 2

\* accounts plus transactions of the snapshot of SpecAll
MaxLedger == 3

\* accounts of the snapshot of SpecSummary
MaxAccounts == 3

\* invoices plus transactions of the snapshot of SpecCustomer
MaxReceivable == 2

\* transactions of the snapshot of SpecVendor
MaxPayable == 2

\* contacts plus invoices plus transactions of the snapshot of SpecContacts
MaxContactRecords == 3

-----------------------------------------------------------------------------
(* Input domains *)

Undefined == "undefined"

AccountTypes == {"asset", "liability", "equity", "revenue", "expense"}

TransactionTypes == {"income", "expense", "transfer"}

AccountIds == {"cash", "revenue"}

\* an id that no account of the model carries
GhostAccount == "ghost"

AccountRefs == AccountIds \cup {GhostAccount}

Amounts == {200, 500}

NoDescription == << >>

\* postings between accounts; the contact side is left undefined
Postings(amounts) ==
  [description : {NoDescription}, amount : amounts, type : {"transfer"},
   debitAccount : AccountRefs, creditAccount : AccountRefs,
   contact : {Undefined}, contactType : {Undefined}]

\* the accounts of a chart: every id with every type; the stored balance is
\* absent
Accounts(ids) == [id : ids, type : AccountTypes, balance : {Undefined}]

\* the ids of the accounts of SpecSummary
SummaryIds == {"cash", "loan", "capital"}

ContactTypes == {"customer", "vendor"}

\* a contact type outside the declared union, as untyped data can carry
OtherContactType == "lead"

ContactIds == {"k1", "k2"}

Contacts ==
  [id : ContactIds, type : ContactTypes \cup {OtherContactType},
   balance : {Undefined}]

InvoiceStatuses == {"draft", "sent", "paid", "overdue"}

Invoices(statuses, amounts) ==
  [customerId : ContactIds, amount : amounts, status : statuses]

\* "Payment", "PAYMENT due", "Pay rent"
Descriptions ==
  { <<"P", "a", "y", "m", "e", "n", "t">>,
    <<"P", "A", "Y", "M", "E", "N", "T", " ", "d", "u", "e">>,
    <<"P", "a", "y", " ", "r", "e", "n", "t">> }

\* transactions with a contact; the account side is fixed
ContactPostings(contactTypes, types, descriptions, amounts) ==
  [description : descriptions, amount : amounts, type : types,
   debitAccount : {"cash"}, creditAccount : {"revenue"},
   contact : ContactIds, contactType : contactTypes]

-----------------------------------------------------------------------------
(* BalanceEngine *)

DebitsAccountMut(balance, accountType, amount) == balance + amount

\* lines 54-58: the account is debited
DebitsAccount(balance, accountType, amount) ==
  IF accountType \in {"asset", "expense"}
    THEN balance + amount
    ELSE balance - amount

\* lines 63-67: the account is credited
CreditsAccount(balance, accountType, amount) ==
  IF accountType \in {"asset", "expense"}
    THEN balance - amount
    ELSE balance + amount

\* a transaction of neither side is taken as a debit
AccountStepCatchAll(balance, transaction, accountId, accountType) ==
  IF transaction.creditAccount = accountId
    THEN CreditsAccount(balance, accountType, transaction.amount)
    ELSE DebitsAccount(balance, accountType, transaction.amount)

AccountStepMut(balance, transaction, accountId, accountType) ==
  IF transaction.debitAccount = accountId
    THEN DebitsAccount(balance, accountType, transaction.amount)
    ELSE IF transaction.creditAccount = accountId
      THEN CreditsAccount(balance, accountType, transaction.amount)
      ELSE balance

\* lines 52-68: the body of the loop over the transactions
AccountStep(balance, transaction, accountId, accountType) ==
  LET afterDebit ==
        IF transaction.debitAccount = accountId
          THEN DebitsAccount(balance, accountType, transaction.amount)
          ELSE balance
  IN  IF transaction.creditAccount = accountId
        THEN CreditsAccount(afterDebit, accountType, transaction.amount)
        ELSE afterDebit

RECURSIVE AccountLoop(_, _, _, _, _)
\* lines 51-69: for (const transaction of transactions)
AccountLoop(balance, i, accountId, accountType, txns) ==
  IF i > Len(txns)
    THEN balance
    ELSE AccountLoop(AccountStep(balance, txns[i], accountId, accountType),
                     i + 1, accountId, accountType, txns)

\* lines 48-72
calculateAccountBalance(accountId, accountType, txns) ==
  AccountLoop(0, 1, accountId, accountType, txns)

\* the callback forgets the sum: (sum, x) => x.amount
ReduceAmountLast(sum, i, xs) ==
  IF Len(xs) = 0 THEN sum ELSE xs[Len(xs)].amount

RECURSIVE ReduceAmount(_, _, _)
\* lines 83, 89, 105, 112, 127, 128: xs.reduce((sum, x) => sum + x.amount, 0)
ReduceAmount(sum, i, xs) ==
  IF i > Len(xs)
    THEN sum
    ELSE ReduceAmount(sum + xs[i].amount, i + 1, xs)

\* Math.abs
Abs(x) == IF x < 0 THEN -x ELSE x

\* the 0.01 of lines 132 and 217, in cents
Tolerance == 1

RECURSIVE DebitSideAmount(_, _, _)
DebitSideAmount(sum, i, xs) ==
  IF i > Len(xs)
    THEN sum
    ELSE DebitSideAmount(
           IF xs[i].debitAccount \in AccountIds THEN sum + xs[i].amount ELSE sum,
           i + 1, xs)

validateTransactionBalanceMut(txns) ==
  LET totalDebits == DebitSideAmount(0, 1, txns)
      totalCredits == ReduceAmount(0, 1, txns)
      difference == Abs(totalDebits - totalCredits)
  IN  [isValid |-> difference < Tolerance,
       totalDebits |-> totalDebits,
       totalCredits |-> totalCredits,
       difference |-> difference]

\* lines 121-137
validateTransactionBalance(txns) ==
  LET totalDebits == ReduceAmount(0, 1, txns)
      totalCredits == ReduceAmount(0, 1, txns)
      difference == Abs(totalDebits - totalCredits)
  IN  [isValid |-> difference < Tolerance,
       totalDebits |-> totalDebits,
       totalCredits |-> totalCredits,
       difference |-> difference]

-----------------------------------------------------------------------------
(* Map<string, number> *)

EmptyMap == [k \in {} |-> 0]

\* Map.prototype.set
MapSet(map, key, value) ==
  [k \in DOMAIN map \cup {key} |-> IF k = key THEN value ELSE map[k]]

\* line 191: balances.get(key) || 0
MapGetOrZero(map, key) ==
  IF key \in DOMAIN map /\ map[key] # 0 THEN map[key] ELSE 0

-----------------------------------------------------------------------------
(* String.prototype.toLowerCase and String.prototype.includes *)

UpperCase ==
  <<"A", "B", "C", "D", "E", "F", "G", "H", "I", "J", "K", "L", "M",
    "N", "O", "P", "Q", "R", "S", "T", "U", "V", "W", "X", "Y", "Z">>

LowerCase ==
  <<"a", "b", "c", "d", "e", "f", "g", "h", "i", "j", "k", "l", "m",
    "n", "o", "p", "q", "r", "s", "t", "u", "v", "w", "x", "y", "z">>

toLowerCase(str) ==
  [i \in 1..Len(str) |->
     IF \E k \in 1..26 : UpperCase[k] = str[i]
       THEN LowerCase[CHOOSE k \in 1..26 : UpperCase[k] = str[i]]
       ELSE str[i]]

includes(str, search) ==
  \E i \in 0..(Len(str) - Len(search)) :
    SubSeq(str, i + 1, i + Len(search)) = search

PaymentWord == <<"p", "a", "y", "m", "e", "n", "t">>

-----------------------------------------------------------------------------
(* BalanceEngine: contacts *)

IsCustomerInvoiceMut(inv, customerId) ==
  inv.customerId = customerId /\ inv.status \notin {"paid", "draft"}

\* line 82
IsCustomerInvoice(inv, customerId) ==
  inv.customerId = customerId /\ inv.status # "paid"

IsCustomerPaymentMut(txn, customerId) ==
  txn.contact = customerId /\ txn.type = "income"

\* line 87
IsCustomerPayment(txn, customerId) ==
  /\ txn.contact = customerId
  /\ txn.contactType = "customer"
  /\ txn.type = "income"

\* lines 78-92 without the final return
CustomerBalance(customerId, invs, txns) ==
  LET customerInvoices ==
        SelectSeq(invs, LAMBDA inv : IsCustomerInvoice(inv, customerId))
      afterInvoices == 0 + ReduceAmount(0, 1, customerInvoices)
      customerPayments ==
        SelectSeq(txns, LAMBDA txn : IsCustomerPayment(txn, customerId))
  IN  afterInvoices - ReduceAmount(0, 1, customerPayments)

calculateCustomerBalanceMut(customerId, invs, txns) ==
  LET balance == CustomerBalance(customerId, invs, txns)
  IN  IF balance < 0 THEN 0 ELSE balance

\* lines 78-92
calculateCustomerBalance(customerId, invs, txns) ==
  CustomerBalance(customerId, invs, txns)

IsVendorExpenseMut(txn, vendorId) ==
  txn.contact = vendorId /\ txn.type = "expense"

\* line 103
IsVendorExpense(txn, vendorId) ==
  /\ txn.contact = vendorId
  /\ txn.contactType = "vendor"
  /\ txn.type = "expense"

IsVendorPaymentMut(txn, vendorId) ==
  /\ txn.contact = vendorId
  /\ txn.contactType = "vendor"
  /\ txn.type = "expense"
  /\ includes(toLowerCase(txn.description), PaymentWord)

\* line 110
IsVendorPayment(txn, vendorId) ==
  /\ txn.contact = vendorId
  /\ txn.contactType = "vendor"
  /\ includes(toLowerCase(txn.description), PaymentWord)

\* lines 98-115
calculateVendorBalance(vendorId, txns) ==
  LET vendorExpenses ==
        SelectSeq(txns, LAMBDA txn : IsVendorExpense(txn, vendorId))
      afterExpenses == 0 + ReduceAmount(0, 1, vendorExpenses)
      vendorPayments ==
        SelectSeq(txns, LAMBDA txn : IsVendorPayment(txn, vendorId))
  IN  afterExpenses - ReduceAmount(0, 1, vendorPayments)

ContactStepMut(map, contact, invs, txns) ==
  IF contact.id \in DOMAIN map
    THEN map
    ELSE MapSet(map, contact.id,
                IF contact.type = "customer"
                  THEN calculateCustomerBalance(contact.id, invs, txns)
                  ELSE IF contact.type = "vendor"
                    THEN calculateVendorBalance(contact.id, txns)
                    ELSE 0)

\* lines 164-172: the body of the loop over the contacts
ContactStep(map, contact, invs, txns) ==
  LET balance ==
        IF contact.type = "customer"
          THEN calculateCustomerBalance(contact.id, invs, txns)
          ELSE IF contact.type = "vendor"
            THEN calculateVendorBalance(contact.id, txns)
            ELSE 0
  IN  MapSet(map, contact.id, balance)

RECURSIVE ContactLoop(_, _, _, _, _)
\* lines 161-175
ContactLoop(map, i, cts, invs, txns) ==
  IF i > Len(cts)
    THEN map
    ELSE ContactLoop(ContactStep(map, cts[i], invs, txns), i + 1, cts, invs, txns)

\* lines 156-176
calculateAllContactBalances(cts, invs, txns) ==
  ContactLoop(EmptyMap, 1, cts, invs, txns)

-----------------------------------------------------------------------------
(* BalanceEngine: all accounts, summary, accounting equation *)

\* the derived movement added to the stored balance
AccountMapStepStored(map, account, txns) ==
  MapSet(map, account.id,
         account.balance
           + calculateAccountBalance(account.id, account.type, txns))

AccountMapStepMut(map, account, txns) ==
  IF account.id \in DOMAIN map
    THEN map
    ELSE MapSet(map, account.id,
                calculateAccountBalance(account.id, account.type, txns))

\* lines 146-147: the body of the loop over the accounts
AccountMapStep(map, account, txns) ==
  MapSet(map, account.id,
         calculateAccountBalance(account.id, account.type, txns))

RECURSIVE AccountMapLoop(_, _, _, _)
\* lines 143-150
AccountMapLoop(map, i, accts, txns) ==
  IF i > Len(accts)
    THEN map
    ELSE AccountMapLoop(AccountMapStep(map, accts[i], txns), i + 1, accts, txns)

\* lines 142-151
calculateAllAccountBalances(accts, txns) ==
  AccountMapLoop(EmptyMap, 1, accts, txns)

\* lines 182-188
EmptySummary == [type \in AccountTypes |-> 0]

SummaryStepMut(summary, account, map) ==
  LET balance == MapGetOrZero(map, account.id)
  IN  [summary EXCEPT ![account.type] = balance]

\* lines 191-192: the body of the loop over the accounts
SummaryStep(summary, account, map) ==
  LET balance == MapGetOrZero(map, account.id)
  IN  [summary EXCEPT ![account.type] = @ + balance]

RECURSIVE SummaryLoop(_, _, _, _)
\* lines 190-195
SummaryLoop(summary, i, accts, map) ==
  IF i > Len(accts)
    THEN summary
    ELSE SummaryLoop(SummaryStep(summary, accts[i], map), i + 1, accts, map)

\* lines 181-196
getAccountTypeSummary(accts, map) ==
  SummaryLoop(EmptySummary, 1, accts, map)

verifyAccountingEquationMut(accts, map) ==
  LET summary == getAccountTypeSummary(accts, map)
      assets == summary["asset"]
      liabilitiesAndEquity == summary["liability"] + summary["equity"]
      difference == Abs(assets - liabilitiesAndEquity)
  IN  [isBalanced |-> difference <= Tolerance,
       assets |-> assets,
       liabilities |-> summary["liability"],
       equity |-> summary["equity"],
       difference |-> difference]

\* lines 201-223
verifyAccountingEquation(accts, map) ==
  LET summary == getAccountTypeSummary(accts, map)
      assets == summary["asset"]
      liabilitiesAndEquity == summary["liability"] + summary["equity"]
      difference == Abs(assets - liabilitiesAndEquity)
  IN  [isBalanced |-> difference < Tolerance,
       assets |-> assets,
       liabilities |-> summary["liability"],
       equity |-> summary["equity"],
       difference |-> difference]

-----------------------------------------------------------------------------
(* The receiver of a call.  `BalanceEngine.f(...)` runs f with `this` the  *)
(* class; the exports of lines 249-260 are the static methods taken off    *)
(* the class by destructuring, and `f(...)` runs f with `this` undefined   *)
(* (class bodies and modules are strict code).                             *)

Receivers == {"BalanceEngine", Undefined}

\* how a call ends: with the value it returns or with the error it throws
Returned(value) == [threw |-> FALSE, value |-> value]

Threw(error) == [threw |-> TRUE, error |-> error]

\* `this.name`, lines 146, 167, 169 and 211: reading a property of undefined
\* throws a TypeError
ThisThrows(this) == this = Undefined

\* line 146 runs once per account
calculateAllAccountBalancesOn(this, accts, txns) ==
  IF Len(accts) > 0 /\ ThisThrows(this)
  THEN Threw("TypeError")
  ELSE Returned(calculateAllAccountBalances(accts, txns))

\* lines 167 and 169 run for the contacts of type customer and vendor
calculateAllContactBalancesOn(this, cts, invs, txns) ==
  IF /\ \E i \in 1..Len(cts) : cts[i].type \in {"customer", "vendor"}
     /\ ThisThrows(this)
  THEN Threw("TypeError")
  ELSE Returned(calculateAllContactBalances(cts, invs, txns))

\* line 211 runs in every call
verifyAccountingEquationOn(this, accts, map) ==
  IF ThisThrows(this)
  THEN Threw("TypeError")
  ELSE Returned(verifyAccountingEquation(accts, map))

\* records of the snapshot of SpecTwice
MaxRepeat == 2

\* Maps the caller of SpecTwice keeps
MaxKept == 2

\* accounts plus transactions of the snapshot of SpecIdentity
MaxIdentity == 4

\* invoices plus transactions of the snapshot of SpecOrder
MaxOrder == 3

\* records of the snapshot of SpecMiss
MaxMiss == 3

\* records of the snapshot of SpecExports
MaxEngineRecords == 2

\* the balance fields stored on the Account and Contact records, lines 22
\* and 29
StoredBalances == {0, 700}

StoredAccounts ==
  [id : {"cash"}, type : AccountTypes, balance : StoredBalances]

StoredContacts ==
  [id : {"k1"}, type : ContactTypes \cup {OtherContactType},
   balance : StoredBalances]

\* the balances handed to getBalanceColorClass
MaxBalance == 10

ShownBalances == (0 - MaxBalance)..MaxBalance

-----------------------------------------------------------------------------
(* formatCurrency, lines 228-233.  A string is a sequence of one-character *)
(* strings; an amount is a number of cents.                                *)

\* the small amounts handed to formatCurrency, in cents
MaxCents == 60

\* the small amounts of both signs, and amounts whose units take one, two
\* and three groups of digits
ShownAmounts ==
  (0 - MaxCents)..MaxCents
    \cup {99949, 99950, 123456, 100000049, 123456789}
    \cup {-99949, -99950, -123456, -100000049, -123456789}

DigitChars == <<"0", "1", "2", "3", "4", "5", "6", "7", "8", "9">>

RECURSIVE Digits(_)
\* the decimal digits of a natural number
Digits(n) ==
  IF n < 10
    THEN <<DigitChars[n + 1]>>
    ELSE Digits(n \div 10) \o <<DigitChars[(n % 10) + 1]>>

\* a group of three digits after a separator
ThreeDigits(n) ==
  <<DigitChars[(n \div 100) + 1], DigitChars[((n \div 10) % 10) + 1],
    DigitChars[(n % 10) + 1]>>

RECURSIVE Grouped(_)
\* en-US grouping: a comma before every group of three digits
Grouped(n) ==
  IF n < 1000
    THEN Digits(n)
    ELSE Grouped(n \div 1000) \o <<",">> \o ThreeDigits(n % 1000)

\* lines 229-232: Intl.NumberFormat("en-US", {minimumFractionDigits: 0,
\* maximumFractionDigits: 0}).format(x), for x >= 0 in cents: the units,
\* halves rounded up, with grouping
NumberFormat(cents) == Grouped((cents + 50) \div 100)

\* a minus sign after the number of a negative amount
SignSuffixMut(amount) == IF amount < 0 THEN <<"-">> ELSE << >>

\* line 232: ${amount < 0 ? "" : ""}
SignSuffix(amount) == IF amount < 0 THEN << >> ELSE << >>

formatCurrency(amount) ==
  <<"K">> \o NumberFormat(Abs(amount)) \o SignSuffix(amount)

-----------------------------------------------------------------------------
(* getBalanceColorClass, lines 238-246 *)

\* the else branch with the colours exchanged
ColorOfOtherTypesMut(balance) ==
  IF balance >= 0 THEN "text-red-600" ELSE "text-green-600"

\* line 241: assets and expenses
ColorOfDebitNormal(balance) ==
  IF balance >= 0 THEN "text-green-600" ELSE "text-red-600"

\* line 244: liabilities, equity, revenue and a missing accountType
ColorOfOtherTypes(balance) ==
  IF balance >= 0 THEN "text-green-600" ELSE "text-red-600"

getBalanceColorClass(balance, accountType) ==
  IF accountType = "asset" \/ accountType = "expense"
  THEN ColorOfDebitNormal(balance)
  ELSE ColorOfOtherTypes(balance)

-----------------------------------------------------------------------------
(* The caller *)

NoCall == [op |-> "none"]

\* the callers that run calls step by step
Callers == {"a", "b"}

\* a caller with no invocation in progress
NoFrame == [pc |-> "idle", i |-> 0]

Idle == ret.op = "none"

\* the number of records of the snapshot
SnapshotSize ==
  Len(accounts) + Len(contacts) + Len(invoices) + Len(transactions)

\* the caller appends one record to the transactions it passes
PostTransaction(universe, max) ==
  /\ Idle
  /\ SnapshotSize < max
  /\ \E t \in universe : transactions' = Append(transactions, t)
  /\ UNCHANGED <<accounts, contacts, invoices, balances, ret, kept, frames, database>>

\* the caller appends one record to the accounts it passes
AddAccount(universe, max) ==
  /\ Idle
  /\ SnapshotSize < max
  /\ \E a \in universe : accounts' = Append(accounts, a)
  /\ UNCHANGED <<contacts, invoices, transactions, balances, ret, kept, frames, database>>

\* the caller appends one record to the contacts it passes
AddContact(universe, max) ==
  /\ Idle
  /\ SnapshotSize < max
  /\ \E c \in universe : contacts' = Append(contacts, c)
  /\ UNCHANGED <<accounts, invoices, transactions, balances, ret, kept, frames, database>>

\* the caller appends one record to the invoices it passes
AddInvoice(universe, max) ==
  /\ Idle
  /\ SnapshotSize < max
  /\ \E inv \in universe : invoices' = Append(invoices, inv)
  /\ UNCHANGED <<accounts, contacts, transactions, balances, ret, kept, frames, database>>

Call_calculateAccountBalance ==
  /\ Idle
  /\ \E accountId \in AccountIds, accountType \in AccountTypes :
       ret' = [op |-> "calculateAccountBalance",
               accountId |-> accountId, accountType |-> accountType,
               result |-> calculateAccountBalance(accountId, accountType, transactions)]
  /\ UNCHANGED <<accounts, contacts, invoices, transactions, balances>>
  /\ UNCHANGED <<kept, frames, database>>

Call_validateTransactionBalance ==
  /\ Idle
  /\ ret' = [op |-> "validateTransactionBalance",
             result |-> validateTransactionBalance(transactions)]
  /\ UNCHANGED <<accounts, contacts, invoices, transactions, balances>>
  /\ UNCHANGED <<kept, frames, database>>

\* the identities of the Map objects the caller holds
KeptRefs == {kept[i].ref : i \in 1..Len(kept)}

\* a Map handed out before is handed out again
NewMapCached(refs) ==
  IF refs = {} THEN 1 ELSE CHOOSE ref \in refs : TRUE

\* line 143, new Map(): an object that is none of the objects in existence
NewMap(refs) ==
  IF refs = {} THEN 1 ELSE 1 + CHOOSE ref \in refs : \A other \in refs : other <= ref

Call_calculateAllAccountBalances ==
  /\ Idle
  /\ ret' = [op |-> "calculateAllAccountBalances",
             ref |-> NewMap(KeptRefs),
             result |-> calculateAllAccountBalances(accounts, transactions)]
  /\ UNCHANGED <<accounts, contacts, invoices, transactions, balances>>
  /\ UNCHANGED <<kept, frames, database>>

Call_calculateCustomerBalance ==
  /\ Idle
  /\ \E customerId \in ContactIds :
       ret' = [op |-> "calculateCustomerBalance",
               customerId |-> customerId,
               result |-> calculateCustomerBalance(customerId, invoices, transactions)]
  /\ UNCHANGED <<accounts, contacts, invoices, transactions, balances>>
  /\ UNCHANGED <<kept, frames, database>>

Call_calculateVendorBalance ==
  /\ Idle
  /\ \E vendorId \in ContactIds :
       ret' = [op |-> "calculateVendorBalance",
               vendorId |-> vendorId,
               result |-> calculateVendorBalance(vendorId, transactions)]
  /\ UNCHANGED <<accounts, contacts, invoices, transactions, balances>>
  /\ UNCHANGED <<kept, frames, database>>

Call_calculateAllContactBalances ==
  /\ Idle
  /\ ret' = [op |-> "calculateAllContactBalances",
             result |-> calculateAllContactBalances(contacts, invoices, transactions)]
  /\ UNCHANGED <<accounts, contacts, invoices, transactions, balances>>
  /\ UNCHANGED <<kept, frames, database>>

Call_getAccountTypeSummary ==
  /\ Idle
  /\ ret' = [op |-> "getAccountTypeSummary",
             result |-> getAccountTypeSummary(accounts, balances)]
  /\ UNCHANGED <<accounts, contacts, invoices, transactions, balances>>
  /\ UNCHANGED <<kept, frames, database>>

Call_verifyAccountingEquation ==
  /\ Idle
  /\ ret' = [op |-> "verifyAccountingEquation",
             result |-> verifyAccountingEquation(accounts, balances)]
  /\ UNCHANGED <<accounts, contacts, invoices, transactions, balances>>
  /\ UNCHANGED <<kept, frames, database>>

\* the caller runs both checks of the ledger on one snapshot:
\* validateTransactionBalance(transactions) and
\* verifyAccountingEquation(accounts, calculateAllAccountBalances(accounts, transactions))
Call_crossCheck ==
  /\ Idle
  /\ ret' = [op |-> "crossCheck",
             validation |-> validateTransactionBalance(transactions),
             equation |->
               verifyAccountingEquation(
                 accounts, calculateAllAccountBalances(accounts, transactions))]
  /\ UNCHANGED <<accounts, contacts, invoices, transactions, balances>>
  /\ UNCHANGED <<kept, frames, database>>

Call_formatCurrency ==
  /\ Idle
  /\ \E amount \in ShownAmounts :
       ret' = [op |-> "formatCurrency",
               amount |-> amount,
               result |-> formatCurrency(amount)]
  /\ UNCHANGED <<accounts, contacts, invoices, transactions, balances>>
  /\ UNCHANGED <<kept, frames, database>>

Call_getBalanceColorClass ==
  /\ Idle
  /\ \E balance \in ShownBalances, accountType \in AccountTypes \cup {Undefined} :
       ret' = [op |-> "getBalanceColorClass",
               balance |-> balance,
               accountType |-> accountType,
               result |-> getBalanceColorClass(balance, accountType)]
  /\ UNCHANGED <<accounts, contacts, invoices, transactions, balances>>
  /\ UNCHANGED <<kept, frames, database>>

\* The calls with a receiver: `this` is the class or, for a destructured
\* export called as a plain function, undefined.

Invoke_calculateAccountBalance ==
  /\ Idle
  /\ \E this \in Receivers, accountType \in AccountTypes :
       ret' = [op |-> "calculateAccountBalance", this |-> this,
               accountId |-> "cash", accountType |-> accountType,
               outcome |->
                 Returned(calculateAccountBalance("cash", accountType, transactions))]
  /\ UNCHANGED <<accounts, contacts, invoices, transactions, balances>>
  /\ UNCHANGED <<kept, frames, database>>

Invoke_calculateCustomerBalance ==
  /\ Idle
  /\ \E this \in Receivers, customerId \in ContactIds :
       ret' = [op |-> "calculateCustomerBalance", this |-> this,
               customerId |-> customerId,
               outcome |->
                 Returned(calculateCustomerBalance(customerId, invoices, transactions))]
  /\ UNCHANGED <<accounts, contacts, invoices, transactions, balances>>
  /\ UNCHANGED <<kept, frames, database>>

Invoke_calculateVendorBalance ==
  /\ Idle
  /\ \E this \in Receivers, vendorId \in ContactIds :
       ret' = [op |-> "calculateVendorBalance", this |-> this,
               vendorId |-> vendorId,
               outcome |-> Returned(calculateVendorBalance(vendorId, transactions))]
  /\ UNCHANGED <<accounts, contacts, invoices, transactions, balances>>
  /\ UNCHANGED <<kept, frames, database>>

Invoke_validateTransactionBalance ==
  /\ Idle
  /\ \E this \in Receivers :
       ret' = [op |-> "validateTransactionBalance", this |-> this,
               outcome |-> Returned(validateTransactionBalance(transactions))]
  /\ UNCHANGED <<accounts, contacts, invoices, transactions, balances>>
  /\ UNCHANGED <<kept, frames, database>>

Invoke_calculateAllAccountBalances ==
  /\ Idle
  /\ \E this \in Receivers :
       ret' = [op |-> "calculateAllAccountBalances", this |-> this,
               outcome |->
                 calculateAllAccountBalancesOn(this, accounts, transactions)]
  /\ UNCHANGED <<accounts, contacts, invoices, transactions, balances>>
  /\ UNCHANGED <<kept, frames, database>>

Invoke_calculateAllContactBalances ==
  /\ Idle
  /\ \E this \in Receivers :
       ret' = [op |-> "calculateAllContactBalances", this |-> this,
               outcome |->
                 calculateAllContactBalancesOn(this, contacts, invoices, transactions)]
  /\ UNCHANGED <<accounts, contacts, invoices, transactions, balances>>
  /\ UNCHANGED <<kept, frames, database>>

\* the default of line 191 written into the Map that was passed
Invoke_getAccountTypeSummaryMut ==
  /\ Idle
  /\ \E this \in Receivers :
       ret' = [op |-> "getAccountTypeSummary", this |-> this,
               outcome |-> Returned(getAccountTypeSummary(accounts, balances))]
  /\ balances' =
       [id \in DOMAIN balances \cup {accounts[i].id : i \in 1..Len(accounts)} |->
          MapGetOrZero(balances, id)]
  /\ UNCHANGED <<accounts, contacts, invoices, transactions>>
  /\ UNCHANGED <<kept, frames, database>>

Invoke_getAccountTypeSummary ==
  /\ Idle
  /\ \E this \in Receivers :
       ret' = [op |-> "getAccountTypeSummary", this |-> this,
               outcome |-> Returned(getAccountTypeSummary(accounts, balances))]
  /\ UNCHANGED <<accounts, contacts, invoices, transactions, balances>>
  /\ UNCHANGED <<kept, frames, database>>

Invoke_verifyAccountingEquation ==
  /\ Idle
  /\ \E this \in Receivers :
       ret' = [op |-> "verifyAccountingEquation", this |-> this,
               outcome |-> verifyAccountingEquationOn(this, accounts, balances)]
  /\ UNCHANGED <<accounts, contacts, invoices, transactions, balances>>
  /\ UNCHANGED <<kept, frames, database>>

\* the caller keeps the Map that calculateAllAccountBalances returned, with
\* the inputs it was computed from
Keep ==
  /\ ret.op = "calculateAllAccountBalances"
  /\ Len(kept) < MaxKept
  /\ kept' = Append(kept, [accounts |-> accounts,
                           transactions |-> transactions,
                           ref |-> ret.ref,
                           entries |-> ret.result])
  /\ ret' = NoCall
  /\ UNCHANGED <<accounts, contacts, invoices, transactions, balances>>
  /\ UNCHANGED <<frames, database>>

\* the caller adds an account whose id no account of the list has
OpenAccount(universe, max) ==
  /\ Idle
  /\ SnapshotSize < max
  /\ \E a \in universe :
       /\ \A i \in 1..Len(accounts) : accounts[i].id # a.id
       /\ accounts' = Append(accounts, a)
  /\ UNCHANGED <<contacts, invoices, transactions, balances, ret, kept, frames, database>>

\* the caller appends a transaction between two accounts of the list (or
\* of one account with itself)
PostBetween(amounts, max) ==
  /\ Idle
  /\ SnapshotSize < max
  /\ \E i \in 1..Len(accounts), j \in 1..Len(accounts), amount \in amounts :
       transactions' =
         Append(transactions,
                [description |-> NoDescription, amount |-> amount,
                 type |-> "transfer",
                 debitAccount |-> accounts[i].id,
                 creditAccount |-> accounts[j].id,
                 contact |-> Undefined, contactType |-> Undefined])
  /\ UNCHANGED <<accounts, contacts, invoices, balances, ret, kept, frames, database>>

\* the caller derives the balances from the ledger and passes them on:
\* getAccountTypeSummary and verifyAccountingEquation of
\* calculateAllAccountBalances(accounts, transactions)
Call_ledgerSummary ==
  /\ Idle
  /\ LET derived == calculateAllAccountBalances(accounts, transactions)
     IN  ret' = [op |-> "ledgerSummary",
                 summary |-> getAccountTypeSummary(accounts, derived),
                 equation |-> verifyAccountingEquation(accounts, derived)]
  /\ UNCHANGED <<accounts, contacts, invoices, transactions, balances>>
  /\ UNCHANGED <<kept, frames, database>>

\* the caller takes the returned value
Return ==
  /\ ~Idle
  /\ ret' = NoCall
  /\ UNCHANGED <<accounts, contacts, invoices, transactions, balances>>
  /\ UNCHANGED <<kept, frames, database>>

-----------------------------------------------------------------------------
(* Invocations run step by step.  Each caller of Callers has at most one   *)
(* invocation in progress; its frame holds the arguments and the locals of *)
(* that invocation.  One step is one turn of a for loop or one call of a   *)
(* reduce callback, and the steps of the callers interleave in every       *)
(* order.  (JavaScript runs each call to completion, which is one of the   *)
(* orders.)  The calls a loop body makes, lines 146, 167 and 169, and the  *)
(* filters are taken as one step.                                          *)

\* items of the lists the callers of SpecCallers pass
MaxFrameItems == 2

SeqsUpTo(S, n) == UNION {[1..k -> S] : k \in 0..n}

\* an income of customer k1
IncomePosting ==
  [description |-> NoDescription, amount |-> 200, type |-> "income",
   debitAccount |-> "cash", creditAccount |-> "revenue",
   contact |-> "k1", contactType |-> "customer"]

\* an expense "Payment" of vendor k1
PaymentPosting ==
  [description |-> <<"P", "a", "y", "m", "e", "n", "t">>, amount |-> 500,
   type |-> "expense", debitAccount |-> "revenue", creditAccount |-> "cash",
   contact |-> "k1", contactType |-> "vendor"]

FramePostings == {IncomePosting, PaymentPosting}

FrameLedgers == SeqsUpTo(FramePostings, MaxFrameItems)

FrameCharts ==
  SeqsUpTo({ [id |-> "cash", type |-> "asset", balance |-> Undefined],
             [id |-> "revenue", type |-> "revenue", balance |-> Undefined] },
           MaxFrameItems)

FrameDirectories ==
  SeqsUpTo({ [id |-> "k1", type |-> "customer", balance |-> Undefined],
             [id |-> "k1", type |-> "vendor", balance |-> Undefined] },
           MaxFrameItems)

\* the ledger, the invoices and the balances Map passed along with a chart
\* or a directory
FrameLedger == <<IncomePosting, PaymentPosting>>

FrameReceivables ==
  { << >>, <<[customerId |-> "k1", amount |-> 200, status |-> "sent"]>> }

FrameBalances == [cash |-> 300, revenue |-> 200]

\* lines 49, 143, 161 and 182, and the initial value of the reduce calls:
\* the local the loop of the invocation accumulates in
Start(op) ==
  CASE op \in {"calculateAllAccountBalances", "calculateAllContactBalances"} ->
         EmptyMap
    [] op \in {"getAccountTypeSummary", "verifyAccountingEquation"} ->
         EmptySummary
    [] OTHER -> 0

\* the frame of a call that has just been entered; lists are the arrays its
\* loops run over, in turn
Frame(op, args, lists) ==
  [pc |-> "loop", op |-> op, args |-> args, lists |-> lists, phase |-> 1,
   i |-> 0, acc |-> Start(op), done |-> << >>]

\* the accumulator is one variable of the class, shared by the invocations
\* of a method
AccumulatorShared(frame, caller) ==
  LET others ==
        {other \in Callers \ {caller} :
           frames[other].pc = "loop" /\ frames[other].op = frame.op}
  IN  IF others = {}
        THEN frame.acc
        ELSE frames[CHOOSE other \in others : TRUE].acc

\* `let balance`, `const balances`, `const summary` and the sum of a reduce
\* are locals of the invocation
Accumulator(frame, caller) == frame.acc

\* the body of the loop of the invocation, with acc the accumulator
Body(frame, acc, item) ==
  CASE frame.op = "calculateAccountBalance" ->
         AccountStep(acc, item, frame.args.accountId, frame.args.accountType)
    [] frame.op = "calculateAllAccountBalances" ->
         AccountMapStep(acc, item, frame.args.transactions)
    [] frame.op = "calculateAllContactBalances" ->
         ContactStep(acc, item, frame.args.invoices, frame.args.transactions)
    [] frame.op \in {"getAccountTypeSummary", "verifyAccountingEquation"} ->
         SummaryStep(acc, item, frame.args.balances)
    [] OTHER -> acc + item.amount

\* lines 128-136, from the two sums
ValidationOf(totalDebits, totalCredits) ==
  LET difference == Abs(totalDebits - totalCredits)
  IN  [isValid |-> difference < Tolerance,
       totalDebits |-> totalDebits,
       totalCredits |-> totalCredits,
       difference |-> difference]

\* lines 212-222, from the summary
EquationOf(summary) ==
  LET assets == summary["asset"]
      liabilitiesAndEquity == summary["liability"] + summary["equity"]
      difference == Abs(assets - liabilitiesAndEquity)
  IN  [isBalanced |-> difference < Tolerance,
       assets |-> assets,
       liabilities |-> summary["liability"],
       equity |-> summary["equity"],
       difference |-> difference]

\* the value the invocation returns, from the accumulators of its loops
Finish(op, accs) ==
  CASE op = "validateTransactionBalance" -> ValidationOf(accs[1], accs[2])
    [] op \in {"calculateCustomerBalance", "calculateVendorBalance"} ->
         accs[1] - accs[2]
    [] op = "verifyAccountingEquation" -> EquationOf(accs[1])
    [] OTHER -> accs[1]

\* The calls: a caller with no invocation in progress enters one.

Enter_calculateAccountBalance ==
  /\ \E caller \in Callers, accountType \in {"asset", "revenue"}, txns \in FrameLedgers :
       /\ frames[caller].pc = "idle"
       /\ frames' =
            [frames EXCEPT ![caller] =
               Frame("calculateAccountBalance",
                       [accountId |-> "cash", accountType |-> accountType,
                        transactions |-> txns],
                       <<txns>>)]
  /\ UNCHANGED <<accounts, contacts, invoices, transactions, balances>>
  /\ UNCHANGED <<ret, kept, database>>

Enter_calculateCustomerBalance ==
  /\ \E caller \in Callers, invs \in FrameReceivables, txns \in FrameLedgers :
       /\ frames[caller].pc = "idle"
       /\ frames' =
            [frames EXCEPT ![caller] =
               Frame("calculateCustomerBalance",
                       [customerId |-> "k1", invoices |-> invs, transactions |-> txns],
                       <<SelectSeq(invs, LAMBDA inv : IsCustomerInvoice(inv, "k1")),
                         SelectSeq(txns, LAMBDA txn : IsCustomerPayment(txn, "k1"))>>)]
  /\ UNCHANGED <<accounts, contacts, invoices, transactions, balances>>
  /\ UNCHANGED <<ret, kept, database>>

Enter_calculateVendorBalance ==
  /\ \E caller \in Callers, txns \in FrameLedgers :
       /\ frames[caller].pc = "idle"
       /\ frames' =
            [frames EXCEPT ![caller] =
               Frame("calculateVendorBalance",
                       [vendorId |-> "k1", transactions |-> txns],
                       <<SelectSeq(txns, LAMBDA txn : IsVendorExpense(txn, "k1")),
                         SelectSeq(txns, LAMBDA txn : IsVendorPayment(txn, "k1"))>>)]
  /\ UNCHANGED <<accounts, contacts, invoices, transactions, balances>>
  /\ UNCHANGED <<ret, kept, database>>

Enter_validateTransactionBalance ==
  /\ \E caller \in Callers, txns \in FrameLedgers :
       /\ frames[caller].pc = "idle"
       /\ frames' =
            [frames EXCEPT ![caller] =
               Frame("validateTransactionBalance", [transactions |-> txns],
                       <<txns, txns>>)]
  /\ UNCHANGED <<accounts, contacts, invoices, transactions, balances>>
  /\ UNCHANGED <<ret, kept, database>>

Enter_calculateAllAccountBalances ==
  /\ \E caller \in Callers, accts \in FrameCharts :
       /\ frames[caller].pc = "idle"
       /\ frames' =
            [frames EXCEPT ![caller] =
               Frame("calculateAllAccountBalances",
                       [accounts |-> accts, transactions |-> FrameLedger],
                       <<accts>>)]
  /\ UNCHANGED <<accounts, contacts, invoices, transactions, balances>>
  /\ UNCHANGED <<ret, kept, database>>

Enter_calculateAllContactBalances ==
  /\ \E caller \in Callers, cts \in FrameDirectories, invs \in FrameReceivables :
       /\ frames[caller].pc = "idle"
       /\ frames' =
            [frames EXCEPT ![caller] =
               Frame("calculateAllContactBalances",
                       [contacts |-> cts, invoices |-> invs,
                        transactions |-> FrameLedger],
                       <<cts>>)]
  /\ UNCHANGED <<accounts, contacts, invoices, transactions, balances>>
  /\ UNCHANGED <<ret, kept, database>>

Enter_getAccountTypeSummary ==
  /\ \E caller \in Callers, accts \in FrameCharts :
       /\ frames[caller].pc = "idle"
       /\ frames' =
            [frames EXCEPT ![caller] =
               Frame("getAccountTypeSummary",
                       [accounts |-> accts, balances |-> FrameBalances],
                       <<accts>>)]
  /\ UNCHANGED <<accounts, contacts, invoices, transactions, balances>>
  /\ UNCHANGED <<ret, kept, database>>

Enter_verifyAccountingEquation ==
  /\ \E caller \in Callers, accts \in FrameCharts :
       /\ frames[caller].pc = "idle"
       /\ frames' =
            [frames EXCEPT ![caller] =
               Frame("verifyAccountingEquation",
                       [accounts |-> accts, balances |-> FrameBalances],
                       <<accts>>)]
  /\ UNCHANGED <<accounts, contacts, invoices, transactions, balances>>
  /\ UNCHANGED <<ret, kept, database>>

\* one turn of the loop of an invocation
Iterate ==
  /\ \E caller \in Callers :
       LET frame == frames[caller]
       IN  /\ frame.pc = "loop"
           /\ frame.i < Len(frame.lists[frame.phase])
           /\ frames' =
                [frames EXCEPT ![caller] =
                   [frame EXCEPT
                      !.i = @ + 1,
                      !.acc = Body(frame, Accumulator(frame, caller),
                                   frame.lists[frame.phase][frame.i + 1])]]
  /\ UNCHANGED <<accounts, contacts, invoices, transactions, balances>>
  /\ UNCHANGED <<ret, kept, database>>

\* the first reduce is done and the second starts
NextLoop ==
  /\ \E caller \in Callers :
       LET frame == frames[caller]
       IN  /\ frame.pc = "loop"
           /\ frame.i = Len(frame.lists[frame.phase])
           /\ frame.phase < Len(frame.lists)
           /\ frames' =
                [frames EXCEPT ![caller] =
                   [frame EXCEPT
                      !.phase = @ + 1,
                      !.i = 0,
                      !.done = Append(@, Accumulator(frame, caller)),
                      !.acc = Start(frame.op)]]
  /\ UNCHANGED <<accounts, contacts, invoices, transactions, balances>>
  /\ UNCHANGED <<ret, kept, database>>

\* the last loop is done: the invocation returns
Exit ==
  /\ \E caller \in Callers :
       LET frame == frames[caller]
       IN  /\ frame.pc = "loop"
           /\ frame.i = Len(frame.lists[frame.phase])
           /\ frame.phase = Len(frame.lists)
           /\ frames' =
                [frames EXCEPT ![caller] =
                   [pc |-> "returned", i |-> frame.i, op |-> frame.op,
                    args |-> frame.args,
                    result |->
                      Finish(frame.op,
                             Append(frame.done, Accumulator(frame, caller)))]]
  /\ UNCHANGED <<accounts, contacts, invoices, transactions, balances>>
  /\ UNCHANGED <<ret, kept, database>>

\* the caller takes the returned value
Leave ==
  /\ \E caller \in Callers :
       /\ frames[caller].pc = "returned"
       /\ frames' = [frames EXCEPT ![caller] = NoFrame]
  /\ UNCHANGED <<accounts, contacts, invoices, transactions, balances>>
  /\ UNCHANGED <<ret, kept, database>>

-----------------------------------------------------------------------------
(* src/lib/actions/invoices.ts: createInvoice and deleteInvoice.  A row of *)
(* invoices is [id, invoiceNumber, userId], a row of invoice_items is      *)
(* [invoiceId, line]; the other columns do not enter the two actions'      *)
(* control flow.  The form data of createInvoice is valid (it passes       *)
(* invoiceSchema and invoiceItemSchema) and carries 0..MaxItems items.     *)

\* invoice rows ever inserted
MaxInvoices == 3

\* items on the form of one invoice
MaxItems == 2

\* the users with a session, line 29
Users == {"u1", "u2"}

RECURSIVE padStart(_, _, _)
\* String.prototype.padStart
padStart(chars, targetLength, padString) ==
  IF Len(chars) >= targetLength
    THEN chars
    ELSE padStart(<<padString>> \o chars, targetLength, padString)

\* lines 156-159: `INV-${String(existingInvoices.length + 1).padStart(4, "0")}`
InvoiceNumber(existingInvoices) ==
  <<"I", "N", "V", "-">>
    \o padStart(Digits(Cardinality(existingInvoices) + 1), 4, "0")

\* the writes of the callback stay although it threw
TransactionMut(before, after, threw) == after

\* db.transaction, lines 188-223 and 346-359: the writes of the callback are
\* committed when it returns and rolled back when it throws
Transaction(before, after, threw) == IF threw THEN before ELSE after

\* src/db/schema.ts line 178: invoice_number is unique over the whole table
UniqueViolation(invoiceNumber) ==
  \E row \in invoicesTable : row.invoiceNumber = invoiceNumber

\* lines 134-237
Call_createInvoice ==
  /\ Idle
  /\ inserted < MaxInvoices
  /\ \E userId \in Users, items \in 0..MaxItems :
       LET existingInvoices == {row \in invoicesTable : row.userId = userId}
           invoiceNumber == InvoiceNumber(existingInvoices)
           newInvoice == [id |-> inserted + 1,
                          invoiceNumber |-> invoiceNumber,
                          userId |-> userId]
           newItems == {[invoiceId |-> newInvoice.id, line |-> line] :
                          line \in 1..items}
           threw == UniqueViolation(invoiceNumber)
       IN  /\ invoicesTable' =
                Transaction(invoicesTable, invoicesTable \cup {newInvoice}, threw)
           /\ invoiceItemsTable' =
                Transaction(invoiceItemsTable, invoiceItemsTable \cup newItems,
                            threw)
           /\ inserted' = IF threw THEN inserted ELSE inserted + 1
           /\ ret' = [op |-> "createInvoice", userId |-> userId,
                      invoiceNumber |-> invoiceNumber,
                      result |->
                        IF threw
                          THEN [success |-> FALSE,
                                error |-> "Failed to create invoice"]
                          ELSE [success |-> TRUE, data |-> newInvoice]]
  /\ UNCHANGED <<accounts, contacts, invoices, transactions, balances>>
  /\ UNCHANGED <<kept, frames>>

\* lines 342-367; id 0 is an id no row ever had
Call_deleteInvoice ==
  /\ Idle
  /\ \E userId \in Users, id \in 0..MaxInvoices :
       LET itemsLeft == {item \in invoiceItemsTable : item.invoiceId # id}
           result == {row \in invoicesTable :
                        row.id = id /\ row.userId = userId}
           threw == result = {}
       IN  /\ invoiceItemsTable' =
                Transaction(invoiceItemsTable, itemsLeft, threw)
           /\ invoicesTable' =
                Transaction(invoicesTable, invoicesTable \ result, threw)
           /\ ret' = [op |-> "deleteInvoice", userId |-> userId, id |-> id,
                      result |->
                        IF threw
                          THEN [success |-> FALSE,
                                error |-> "Failed to delete invoice"]
                          ELSE [success |-> TRUE]]
  /\ UNCHANGED <<accounts, contacts, invoices, transactions, balances>>
  /\ UNCHANGED <<inserted, kept, frames>>

-----------------------------------------------------------------------------
(* Specifications: one per group of engine functions, each over the inputs *)
(* those functions read                                                    *)

\* the empty snapshot
InitEmpty ==
  /\ accounts = << >>
  /\ contacts = << >>
  /\ invoices = << >>
  /\ transactions = << >>
  /\ balances = EmptyMap
  /\ ret = NoCall
  /\ kept = << >>
  /\ frames = [caller \in Callers |-> NoFrame]
  /\ invoicesTable = {}
  /\ invoiceItemsTable = {}
  /\ inserted = 0

\* calculateAccountBalance and validateTransactionBalance over a ledger
NextAccount ==
  \/ PostTransaction(Postings(Amounts \cup {0}), MaxTxns)
  \/ Call_calculateAccountBalance
  \/ Call_validateTransactionBalance
  \/ Return

SpecAccount == InitEmpty /\ [][NextAccount]_vars

\* calculateAllAccountBalances over a chart of accounts and a ledger
NextAll ==
  \/ AddAccount(Accounts(AccountIds), MaxLedger)
  \/ PostTransaction(Postings(Amounts), MaxLedger)
  \/ Call_calculateAllAccountBalances
  \/ Return

SpecAll == InitEmpty /\ [][NextAll]_vars

\* the balances Maps a caller passes to the summary functions; the first
\* two hold 1000.00, 400.00 and 600.00 or 500.00, in cents
BalanceMaps ==
  { [cash |-> 100000, loan |-> 40000, capital |-> 60000],
    [cash |-> 100000, loan |-> 40000, capital |-> 50000],
    [cash |-> 1, loan |-> 0, ghost |-> 9],
    [cash |-> -5, capital |-> 7],
    EmptyMap }

InitSummary ==
  /\ accounts = << >>
  /\ contacts = << >>
  /\ invoices = << >>
  /\ transactions = << >>
  /\ balances \in BalanceMaps
  /\ ret = NoCall
  /\ kept = << >>
  /\ frames = [caller \in Callers |-> NoFrame]
  /\ invoicesTable = {}
  /\ invoiceItemsTable = {}
  /\ inserted = 0

\* getAccountTypeSummary and verifyAccountingEquation over a chart of
\* accounts and a balances Map
NextSummary ==
  \/ AddAccount(Accounts(SummaryIds), MaxAccounts)
  \/ Call_getAccountTypeSummary
  \/ Call_verifyAccountingEquation
  \/ Return

SpecSummary == InitSummary /\ [][NextSummary]_vars

\* calculateCustomerBalance over invoices and transactions
NextCustomer ==
  \/ AddInvoice(Invoices(InvoiceStatuses, Amounts), MaxReceivable)
  \/ PostTransaction(
       ContactPostings(ContactTypes \cup {Undefined}, TransactionTypes,
                       {NoDescription}, Amounts),
       MaxReceivable)
  \/ Call_calculateCustomerBalance
  \/ Return

SpecCustomer == InitEmpty /\ [][NextCustomer]_vars

\* calculateVendorBalance over transactions
NextVendor ==
  \/ PostTransaction(
       ContactPostings(ContactTypes, TransactionTypes, Descriptions, Amounts),
       MaxPayable)
  \/ Call_calculateVendorBalance
  \/ Return

SpecVendor == InitEmpty /\ [][NextVendor]_vars

\* "Payment", "Pay rent"
FewDescriptions ==
  { <<"P", "a", "y", "m", "e", "n", "t">>,
    <<"P", "a", "y", " ", "r", "e", "n", "t">> }

\* calculateAllContactBalances over contacts, invoices and transactions
NextContacts ==
  \/ AddContact(Contacts, MaxContactRecords)
  \/ AddInvoice(Invoices({"sent", "paid"}, {200}), MaxContactRecords)
  \/ PostTransaction(
       ContactPostings(ContactTypes, {"income", "expense"},
                       FewDescriptions, {500}),
       MaxContactRecords)
  \/ Call_calculateAllContactBalances
  \/ Return

SpecContacts == InitEmpty /\ [][NextContacts]_vars

\* both ledger checks over one snapshot of accounts and transactions
NextEquation ==
  \/ AddAccount(Accounts(AccountIds), MaxLedger)
  \/ PostTransaction(Postings(Amounts), MaxLedger)
  \/ Call_crossCheck
  \/ Return

SpecEquation == InitEmpty /\ [][NextEquation]_vars

\* getBalanceColorClass over the shown balances and every accountType
NextColor ==
  \/ Call_getBalanceColorClass
  \/ Return

SpecColor == InitEmpty /\ [][NextColor]_vars

\* every engine function, called on the class and as a plain function, over
\* records that carry a stored balance and a balances Map
NextExports ==
  \/ AddAccount(StoredAccounts, MaxEngineRecords)
  \/ AddContact(StoredContacts, MaxEngineRecords)
  \/ AddInvoice(Invoices({"sent"}, {200}), MaxEngineRecords)
  \/ PostTransaction(
       ContactPostings(ContactTypes, {"income", "expense"},
                       {<<"P", "a", "y", "m", "e", "n", "t">>}, {200}),
       MaxEngineRecords)
  \/ Invoke_calculateAccountBalance
  \/ Invoke_calculateCustomerBalance
  \/ Invoke_calculateVendorBalance
  \/ Invoke_validateTransactionBalance
  \/ Invoke_calculateAllAccountBalances
  \/ Invoke_calculateAllContactBalances
  \/ Invoke_getAccountTypeSummary
  \/ Invoke_verifyAccountingEquation
  \/ Return

SpecExports == InitSummary /\ [][NextExports]_vars

\* calculateAllAccountBalances and calculateAllContactBalances over records
\* that name accounts ("revenue", "ghost") and a contact ("k2") missing from
\* the accounts and contacts lists
NextMiss ==
  \/ AddAccount(Accounts({"cash"}), MaxMiss)
  \/ AddContact([id : {"k1"}, type : ContactTypes \cup {OtherContactType},
                 balance : {Undefined}],
                MaxMiss)
  \/ AddInvoice(Invoices({"sent", "paid"}, {200}), MaxMiss)
  \/ PostTransaction(
       Postings({200})
         \cup ContactPostings(ContactTypes, {"income", "expense"},
                              {<<"P", "a", "y", "m", "e", "n", "t">>}, {500}),
       MaxMiss)
  \/ Call_calculateAllAccountBalances
  \/ Call_calculateAllContactBalances
  \/ Return

SpecMiss == InitEmpty /\ [][NextMiss]_vars

\* calculateAllAccountBalances called again and again, the caller keeping the
\* Maps of earlier calls
NextTwice ==
  \/ AddAccount(Accounts({"cash"}), MaxRepeat)
  \/ PostTransaction(Postings({200}), MaxRepeat)
  \/ Call_calculateAllAccountBalances
  \/ Keep
  \/ Return

SpecTwice == InitEmpty /\ [][NextTwice]_vars

\* two callers run calls of the eight functions step by step
NextCallers ==
  \/ Enter_calculateAccountBalance
  \/ Enter_calculateCustomerBalance
  \/ Enter_calculateVendorBalance
  \/ Enter_validateTransactionBalance
  \/ Enter_calculateAllAccountBalances
  \/ Enter_calculateAllContactBalances
  \/ Enter_getAccountTypeSummary
  \/ Enter_verifyAccountingEquation
  \/ Iterate
  \/ NextLoop
  \/ Exit
  \/ Leave

SpecCallers == InitEmpty /\ [][NextCallers]_vars

\* formatCurrency over the shown amounts
NextCurrency ==
  \/ Call_formatCurrency
  \/ Return

SpecCurrency == InitEmpty /\ [][NextCurrency]_vars

\* a chart of accounts with distinct ids and a ledger posted between them
NextIdentity ==
  \/ OpenAccount(Accounts({"cash", "sales", "rent"}), MaxIdentity)
  \/ PostBetween(Amounts, MaxIdentity)
  \/ Call_ledgerSummary
  \/ Return

SpecIdentity == InitEmpty /\ [][NextIdentity]_vars

\* the four functions that scan the invoices and transactions, over the
\* invoices and transactions of one contact
NextOrder ==
  \/ AddInvoice({inv \in Invoices({"sent", "paid"}, Amounts) :
                   inv.customerId = "k1"},
                MaxOrder)
  \/ PostTransaction(
       {txn \in ContactPostings(ContactTypes, {"income", "expense"},
                                {<<"P", "a", "y", "m", "e", "n", "t">>},
                                Amounts) :
          txn.contact = "k1"},
       MaxOrder)
  \/ Call_calculateAccountBalance
  \/ Call_calculateCustomerBalance
  \/ Call_calculateVendorBalance
  \/ Call_validateTransactionBalance
  \/ Return

SpecOrder == InitEmpty /\ [][NextOrder]_vars

\* createInvoice and deleteInvoice called by two users, one call at a time
NextInvoices ==
  \/ Call_createInvoice
  \/ Call_deleteInvoice
  \/ Return

SpecInvoices == InitEmpty /\ [][NextInvoices]_vars

-----------------------------------------------------------------------------
(* Helpers of the properties *)

Front(s) == SubSeq(s, 1, Len(s) - 1)

Last(s) == s[Len(s)]

RemoveAt(s, i) == SubSeq(s, 1, i - 1) \o SubSeq(s, i + 1, Len(s))

DebitNormal(accountType) == accountType \in {"asset", "expense"}

RECURSIVE AmountOver(_, _)
\* the sum of xs[i].amount over the positions i in S
AmountOver(S, xs) ==
  IF S = {}
    THEN 0
    ELSE LET i == CHOOSE j \in S : TRUE
         IN  xs[i].amount + AmountOver(S \ {i}, xs)

-----------------------------------------------------------------------------
(* Properties of calculateAccountBalance and validateTransactionBalance,   *)
(* under SpecAccount                                                       *)

\* C1: the balance of an empty ledger is 0, and the balance of a ledger whose
\* last transaction names the account only as debitAccount is the balance of
\* the ledger without it plus the amount for asset/expense accounts and minus
\* the amount for liability/equity/revenue accounts; a last transaction that
\* names the account only as creditAccount has the opposite effect.
C1_DebitCreditRule ==
  ret.op = "calculateAccountBalance" =>
    LET A == ret.accountId
        T == ret.accountType
        before == calculateAccountBalance(A, T, Front(transactions))
        t == Last(transactions)
    IN  /\ transactions = << >> => ret.result = 0
        /\ transactions # << >> =>
              /\ (t.debitAccount = A /\ t.creditAccount # A) =>
                    ret.result = IF DebitNormal(T) THEN before + t.amount
                                                  ELSE before - t.amount
              /\ (t.creditAccount = A /\ t.debitAccount # A) =>
                    ret.result = IF DebitNormal(T) THEN before - t.amount
                                                  ELSE before + t.amount

\* C1 witness: a liability account debited by the last of two transactions,
\* after a credit of 500, and the returned balance went down to 300.
C1_Witness ==
  /\ ret.op = "calculateAccountBalance"
  /\ ret.accountType = "liability"
  /\ Len(transactions) = 2
  /\ transactions[1].creditAccount = ret.accountId
  /\ transactions[1].debitAccount # ret.accountId
  /\ transactions[2].debitAccount = ret.accountId
  /\ transactions[2].creditAccount # ret.accountId
  /\ transactions[1].amount = 500
  /\ transactions[2].amount = 200
  /\ ret.result = 300

\* C3: a transaction whose debitAccount and creditAccount are both the account
\* contributes nothing: the returned balance equals the balance of the ledger
\* with that transaction taken out, for every account type.
C3_SelfPostingIsNoOp ==
  ret.op = "calculateAccountBalance" =>
    \A i \in 1..Len(transactions) :
      (/\ transactions[i].debitAccount = ret.accountId
       /\ transactions[i].creditAccount = ret.accountId) =>
        ret.result = calculateAccountBalance(ret.accountId, ret.accountType,
                                             RemoveAt(transactions, i))

\* C3 witness: a self-posting of 500 in front of a debit of 200; the balance
\* is 200.
C3_Witness ==
  /\ ret.op = "calculateAccountBalance"
  /\ ret.accountType = "asset"
  /\ Len(transactions) = 2
  /\ transactions[1].debitAccount = ret.accountId
  /\ transactions[1].creditAccount = ret.accountId
  /\ transactions[1].amount = 500
  /\ transactions[2].debitAccount = ret.accountId
  /\ transactions[2].creditAccount # ret.accountId
  /\ transactions[2].amount = 200
  /\ ret.result = 200

\* C10: validateTransactionBalance reports totalDebits and totalCredits both
\* equal to the sum of all amounts, difference 0 and isValid true, for every
\* ledger; for the empty ledger all three numbers are 0.
C10_ValidatorAlwaysValid ==
  ret.op = "validateTransactionBalance" =>
    LET total == AmountOver(1..Len(transactions), transactions)
    IN  /\ ret.result = [isValid |-> TRUE, totalDebits |-> total,
                         totalCredits |-> total, difference |-> 0]
        /\ transactions = << >> => total = 0

\* C10 witness: a ledger that posts 500 from an account that does not exist to
\* itself and 200 to an account that does not exist is reported valid.
C10_Witness ==
  /\ ret.op = "validateTransactionBalance"
  /\ Len(transactions) = 2
  /\ transactions[1].debitAccount = GhostAccount
  /\ transactions[1].creditAccount = GhostAccount
  /\ transactions[1].amount = 500
  /\ transactions[2].debitAccount = "cash"
  /\ transactions[2].creditAccount = GhostAccount
  /\ transactions[2].amount = 200
  /\ ret.result.isValid
  /\ ret.result.totalDebits = 700

-----------------------------------------------------------------------------
(* Properties of calculateAllAccountBalances, under SpecAll *)

Positions(xs) == 1..Len(xs)

\* position i holds the last record of xs with its id
LastWithId(xs, i) == \A j \in Positions(xs) : j > i => xs[j].id # xs[i].id

\* C2 as claimed: the keys of the returned Map are the ids of the accounts and
\* every account's id maps to calculateAccountBalance of that account's own
\* id and type.
C2_Original ==
  ret.op = "calculateAllAccountBalances" =>
    /\ DOMAIN ret.result = {accounts[i].id : i \in Positions(accounts)}
    /\ \A i \in Positions(accounts) :
         ret.result[accounts[i].id] =
           calculateAccountBalance(accounts[i].id, accounts[i].type, transactions)

\* C2 as amended: the keys of the returned Map are the ids of the accounts and
\* every id maps to calculateAccountBalance of the id and the type of the last
\* account of the list that carries the id; accounts with pairwise distinct
\* ids therefore map each to their own balance.
C2_LastAccountWins ==
  ret.op = "calculateAllAccountBalances" =>
    /\ DOMAIN ret.result = {accounts[i].id : i \in Positions(accounts)}
    /\ \A i \in Positions(accounts) :
         LastWithId(accounts, i) =>
           ret.result[accounts[i].id] =
             calculateAccountBalance(accounts[i].id, accounts[i].type, transactions)

\* C2 witness: two accounts with different ids and one transaction of 500
\* between them; the asset account maps to 500 and the revenue account to 500.
C2_Witness ==
  /\ ret.op = "calculateAllAccountBalances"
  /\ Len(accounts) = 2
  /\ accounts[1].id = "cash" /\ accounts[1].type = "asset"
  /\ accounts[2].id = "revenue" /\ accounts[2].type = "revenue"
  /\ Len(transactions) = 1
  /\ transactions[1].debitAccount = "cash"
  /\ transactions[1].creditAccount = "revenue"
  /\ transactions[1].amount = 500
  /\ ret.result = [cash |-> 500, revenue |-> 500]

-----------------------------------------------------------------------------
(* Properties of calculateCustomerBalance, under SpecCustomer *)

\* the positions of the customer's invoices that are draft, sent or overdue
UnpaidOf(customerId) ==
  {i \in Positions(invoices) :
     /\ invoices[i].customerId = customerId
     /\ invoices[i].status \in {"draft", "sent", "overdue"}}

\* the positions of the income transactions of the customer
IncomeOf(customerId) ==
  {i \in Positions(transactions) :
     /\ transactions[i].contact = customerId
     /\ transactions[i].contactType = "customer"
     /\ transactions[i].type = "income"}

\* C4: the customer's balance is the total of the customer's draft, sent and
\* overdue invoices minus the total of the customer's income transactions; a
\* last transaction that is an income of the customer lowers the balance by
\* its amount.
C4_CustomerBalanceIsUnpaidMinusIncome ==
  ret.op = "calculateCustomerBalance" =>
    /\ ret.result = AmountOver(UnpaidOf(ret.customerId), invoices)
                      - AmountOver(IncomeOf(ret.customerId), transactions)
    /\ Len(transactions) \in IncomeOf(ret.customerId) =>
         ret.result = calculateCustomerBalance(ret.customerId, invoices,
                                               Front(transactions))
                        - Last(transactions).amount

\* C4 witness: one unpaid invoice of 200 and a matching income of 200 give 0.
C4_Witness ==
  /\ ret.op = "calculateCustomerBalance"
  /\ Len(invoices) = 1
  /\ invoices[1].customerId = ret.customerId
  /\ invoices[1].status = "draft"
  /\ invoices[1].amount = 200
  /\ Len(transactions) = 1
  /\ IncomeOf(ret.customerId) = {1}
  /\ transactions[1].amount = 200
  /\ ret.result = 0

\* C5: when the customer's income transactions total more than the customer's
\* unpaid invoices, the balance is negative and is exactly the unpaid total
\* minus the income total.
C5_OverpaymentIsNegative ==
  LET unpaid == AmountOver(UnpaidOf(ret.customerId), invoices)
      paid == AmountOver(IncomeOf(ret.customerId), transactions)
  IN  (ret.op = "calculateCustomerBalance" /\ paid > unpaid) =>
        (ret.result < 0 /\ ret.result = unpaid - paid)

\* C5 witness: an unpaid invoice of 200 and an income of 500 give -300.
C5_Witness ==
  /\ ret.op = "calculateCustomerBalance"
  /\ AmountOver(UnpaidOf(ret.customerId), invoices) = 200
  /\ AmountOver(IncomeOf(ret.customerId), transactions) = 500
  /\ ret.result = -300

-----------------------------------------------------------------------------
(* Properties of calculateVendorBalance, under SpecVendor *)

\* the descriptions that contain "payment" in some letter case
MentionsPayment(description) ==
  description \in { <<"P", "a", "y", "m", "e", "n", "t">>,
                    <<"P", "A", "Y", "M", "E", "N", "T", " ", "d", "u", "e">> }

\* the positions of the expense transactions of the vendor
ExpensesOf(vendorId) ==
  {i \in Positions(transactions) :
     /\ transactions[i].contact = vendorId
     /\ transactions[i].contactType = "vendor"
     /\ transactions[i].type = "expense"}

\* the positions of the transactions of the vendor, of any type, whose
\* description mentions a payment
PaymentsTo(vendorId) ==
  {i \in Positions(transactions) :
     /\ transactions[i].contact = vendorId
     /\ transactions[i].contactType = "vendor"
     /\ MentionsPayment(transactions[i].description)}

\* C6 as claimed: the vendor's balance is the total of the vendor's expense
\* transactions minus the total of those of the vendor's expense transactions
\* whose description contains "payment".
C6_Original ==
  ret.op = "calculateVendorBalance" =>
    ret.result =
      AmountOver(ExpensesOf(ret.vendorId), transactions)
        - AmountOver(ExpensesOf(ret.vendorId) \cap PaymentsTo(ret.vendorId),
                     transactions)

\* C6 as amended: the vendor's balance is the total of the vendor's expense
\* transactions minus the total of the vendor's transactions of any type
\* (expense, income or transfer) whose description contains "payment" in any
\* letter case.
C6_PaymentsOfAnyType ==
  ret.op = "calculateVendorBalance" =>
    ret.result =
      AmountOver(ExpensesOf(ret.vendorId), transactions)
        - AmountOver(PaymentsTo(ret.vendorId), transactions)

\* C6 witness: an expense of 500 "Pay rent" and a transfer of 200
\* "PAYMENT due" to the vendor give 300.
C6_Witness ==
  /\ ret.op = "calculateVendorBalance"
  /\ Len(transactions) = 2
  /\ ExpensesOf(ret.vendorId) = {1}
  /\ PaymentsTo(ret.vendorId) = {2}
  /\ transactions[1].amount = 500
  /\ transactions[2].amount = 200
  /\ transactions[2].type = "transfer"
  /\ transactions[2].description[2] = "A"
  /\ ret.result = 300

-----------------------------------------------------------------------------
(* Properties of calculateAllContactBalances, under SpecContacts *)

\* the balance the dispatch computes for one contact
BalanceOfContact(contact) ==
  CASE contact.type = "customer" ->
         calculateCustomerBalance(contact.id, invoices, transactions)
    [] contact.type = "vendor" ->
         calculateVendorBalance(contact.id, transactions)
    [] OTHER -> 0

\* C7 as claimed: the keys of the returned Map are the contact ids and every
\* contact's id maps to the balance of that contact's own type: the customer
\* balance, the vendor balance, or 0 for any other type.
C7_Original ==
  ret.op = "calculateAllContactBalances" =>
    /\ DOMAIN ret.result = {contacts[i].id : i \in Positions(contacts)}
    /\ \A i \in Positions(contacts) :
         ret.result[contacts[i].id] = BalanceOfContact(contacts[i])

\* C7 as amended: the keys of the returned Map are the contact ids and every
\* id maps to the balance of the last contact of the list that carries the
\* id: its customer balance, its vendor balance, or 0 for any other type.
C7_LastContactWins ==
  ret.op = "calculateAllContactBalances" =>
    /\ DOMAIN ret.result = {contacts[i].id : i \in Positions(contacts)}
    /\ \A i \in Positions(contacts) :
         LastWithId(contacts, i) =>
           ret.result[contacts[i].id] = BalanceOfContact(contacts[i])

\* C7 witness: a contact of another type maps to 0 although an unpaid
\* invoice of 200 names it as customer and an expense of 500 names it as
\* vendor.
C7_Witness ==
  /\ ret.op = "calculateAllContactBalances"
  /\ Len(contacts) = 1
  /\ contacts[1].id = "k1" /\ contacts[1].type = OtherContactType
  /\ Len(invoices) = 1
  /\ invoices[1].customerId = "k1" /\ invoices[1].status = "sent"
  /\ Len(transactions) = 1
  /\ transactions[1].contact = "k1"
  /\ transactions[1].contactType = "vendor"
  /\ transactions[1].type = "expense"
  /\ ~MentionsPayment(transactions[1].description)
  /\ calculateCustomerBalance("k1", invoices, transactions) = 200
  /\ calculateVendorBalance("k1", transactions) = 500
  /\ ret.result = [k1 |-> 0]

-----------------------------------------------------------------------------
(* Properties of getAccountTypeSummary and verifyAccountingEquation, under *)
(* SpecSummary                                                             *)

\* the value the balances Map holds for the account at position i, 0 when the
\* Map has no such key
MappedBalance(i) ==
  IF accounts[i].id \in DOMAIN balances THEN balances[accounts[i].id] ELSE 0

RECURSIVE MappedOver(_)
\* the sum of the mapped balances of the accounts at the positions in S
MappedOver(S) ==
  IF S = {}
    THEN 0
    ELSE LET i == CHOOSE j \in S : TRUE
         IN  MappedBalance(i) + MappedOver(S \ {i})

\* the sum of the mapped balances of the accounts of one type
Bucket(type) ==
  MappedOver({i \in Positions(accounts) : accounts[i].type = type})

ExampleChart ==
  << [id |-> "cash", type |-> "asset", balance |-> Undefined],
     [id |-> "loan", type |-> "liability", balance |-> Undefined],
     [id |-> "capital", type |-> "equity", balance |-> Undefined] >>

\* C8: verifyAccountingEquation returns the asset, liability and equity
\* buckets, difference = |assets - (liabilities + equity)| and isBalanced =
\* (difference < 0.01), which in whole cents is difference = 0; accounts of
\* type revenue or expense do not change the result; 1000 / 400 / 600 is
\* balanced with difference 0 and 1000 / 400 / 500 is not, with difference 100.
C8_AccountingEquation ==
  ret.op = "verifyAccountingEquation" =>
    LET assets == Bucket("asset")
        liabilities == Bucket("liability")
        equity == Bucket("equity")
        difference == Abs(assets - (liabilities + equity))
        balanceSheet ==
          SelectSeq(accounts, LAMBDA a : a.type \notin {"revenue", "expense"})
    IN  /\ ret.result = [isBalanced |-> difference = 0,
                         assets |-> assets,
                         liabilities |-> liabilities,
                         equity |-> equity,
                         difference |-> difference]
        /\ ret.result.isBalanced = (ret.result.difference < Tolerance)
        /\ ret.result = verifyAccountingEquation(balanceSheet, balances)
        /\ (/\ accounts = ExampleChart
            /\ balances = [cash |-> 100000, loan |-> 40000, capital |-> 60000]) =>
             (ret.result.isBalanced /\ ret.result.difference = 0)
        /\ (/\ accounts = ExampleChart
            /\ balances = [cash |-> 100000, loan |-> 40000, capital |-> 50000]) =>
             (~ret.result.isBalanced /\ ret.result.difference = 10000)

\* C8 witness: assets of one cent against liabilities and equity of 0: the
\* difference is exactly 0.01 and the equation is reported as not balanced.
C8_Witness ==
  /\ ret.op = "verifyAccountingEquation"
  /\ Len(accounts) = 3
  /\ accounts[1].type = "asset" /\ accounts[1].id = "cash"
  /\ accounts[2].type = "revenue" /\ accounts[2].id = "cash"
  /\ accounts[3].type = "liability" /\ accounts[3].id = "loan"
  /\ "cash" \in DOMAIN balances
  /\ balances["cash"] = 1
  /\ ret.result.difference = 1
  /\ ~ret.result.isBalanced

\* C9: getAccountTypeSummary returns the five buckets, each the sum of the
\* mapped balances of the accounts of its type, an account whose id is not a
\* key of the Map counting 0; the five buckets add up to the sum of the mapped
\* balances of all accounts.
C9_TypeSummary ==
  ret.op = "getAccountTypeSummary" =>
    /\ DOMAIN ret.result = {"asset", "liability", "equity", "revenue", "expense"}
    /\ \A type \in DOMAIN ret.result : ret.result[type] = Bucket(type)
    /\ ret.result["asset"] + ret.result["liability"] + ret.result["equity"]
         + ret.result["revenue"] + ret.result["expense"]
           = MappedOver(Positions(accounts))

\* C9 witness: two asset accounts with the same id, mapped to -5, and an
\* equity account whose id is not a key of the Map: the asset bucket is -10
\* and the equity bucket 0.
C9_Witness ==
  /\ ret.op = "getAccountTypeSummary"
  /\ Len(accounts) = 3
  /\ accounts[1].type = "asset" /\ accounts[1].id = "cash"
  /\ accounts[2].type = "equity" /\ accounts[2].id = "loan"
  /\ accounts[3].type = "asset" /\ accounts[3].id = "cash"
  /\ DOMAIN balances = {"cash", "capital"}
  /\ balances["cash"] = -5
  /\ ret.result["asset"] = -10
  /\ ret.result["equity"] = 0

-----------------------------------------------------------------------------
(* Further properties of calculateCustomerBalance, under SpecCustomer *)

\* C18: the customer's balance is 0 when no invoice names the customer and no
\* transaction is an income of the customer, whatever invoices of other
\* customers and whatever other transactions there are.
C18_NoMatchingRecordsGivesZero ==
  (/\ ret.op = "calculateCustomerBalance"
   /\ \A i \in Positions(invoices) : invoices[i].customerId # ret.customerId
   /\ IncomeOf(ret.customerId) = {}) =>
    ret.result = 0

\* C18 witness: an unpaid invoice of another customer and an income that
\* names the customer as vendor; the customer's balance is 0.
C18_Witness ==
  /\ ret.op = "calculateCustomerBalance"
  /\ Len(invoices) = 1
  /\ invoices[1].customerId # ret.customerId
  /\ invoices[1].status = "overdue"
  /\ Len(transactions) = 1
  /\ transactions[1].contact = ret.customerId
  /\ transactions[1].contactType = "vendor"
  /\ transactions[1].type = "income"
  /\ ret.result = 0

-----------------------------------------------------------------------------
(* Further properties of calculateVendorBalance, under SpecVendor *)

\* C19: the vendor's balance is 0 when no transaction names the vendor with
\* contactType vendor, whatever transactions of other contacts, or of the
\* same id as customer, there are.
C19_NoVendorTransactionsGivesZero ==
  (/\ ret.op = "calculateVendorBalance"
   /\ \A i \in Positions(transactions) :
        ~(/\ transactions[i].contact = ret.vendorId
          /\ transactions[i].contactType = "vendor")) =>
    ret.result = 0

\* C19 witness: an expense "Payment" that names the id as customer and an
\* expense of another vendor; the vendor's balance is 0.
C19_Witness ==
  /\ ret.op = "calculateVendorBalance"
  /\ Len(transactions) = 2
  /\ transactions[1].contact = ret.vendorId
  /\ transactions[1].contactType = "customer"
  /\ transactions[1].type = "expense"
  /\ MentionsPayment(transactions[1].description)
  /\ transactions[2].contact # ret.vendorId
  /\ transactions[2].contactType = "vendor"
  /\ transactions[2].type = "expense"
  /\ ret.result = 0

-----------------------------------------------------------------------------
(* The two ledger checks compared, under SpecEquation *)

\* C11: whenever verifyAccountingEquation reports the balances that
\* calculateAllAccountBalances derives from the ledger as balanced,
\* validateTransactionBalance reports the same ledger as valid.
C11_BalancedImpliesValid ==
  (ret.op = "crossCheck" /\ ret.equation.isBalanced) =>
    ret.validation.isValid

\* C11 witness (the strictness): a ledger that validateTransactionBalance
\* accepts and verifyAccountingEquation reports as not balanced.
C11_Witness ==
  /\ ret.op = "crossCheck"
  /\ Len(transactions) > 0
  /\ ret.validation.isValid
  /\ ~ret.equation.isBalanced
  /\ ret.equation.difference >= Tolerance

-----------------------------------------------------------------------------
(* Properties of getBalanceColorClass, under SpecColor *)

\* C20: getBalanceColorClass returns "text-green-600" when balance >= 0 and
\* "text-red-600" when balance < 0, for every accountType and for none.
C20_ColorBySignOnly ==
  ret.op = "getBalanceColorClass" =>
    /\ ret.balance >= 0 => ret.result = "text-green-600"
    /\ ret.balance < 0 => ret.result = "text-red-600"

\* C20 witness: a negative balance of a liability account is shown red.
C20_Witness ==
  /\ ret.op = "getBalanceColorClass"
  /\ ret.accountType = "liability"
  /\ ret.balance < 0
  /\ ret.result = "text-red-600"

-----------------------------------------------------------------------------
(* How the calls end, under SpecExports *)

\* C12: every engine operation returns a result for every input snapshot;
\* no call ends in an exception.
C12_EveryCallReturns ==
  ~Idle => ~ret.outcome.threw


\* the lists that differ from xs only in the stored balance of the records
Restored(xs) ==
  { [i \in 1..Len(xs) |-> [xs[i] EXCEPT !.balance = stored[i]]] :
      stored \in [1..Len(xs) -> StoredBalances] }

\* xs with no stored balance on any record
Unstored(xs) == [i \in 1..Len(xs) |-> [xs[i] EXCEPT !.balance = Undefined]]

\* the call that returned ends the same way on the accounts accts and the
\* contacts cts
SameOutcome(accts, cts) ==
  /\ ret.op = "calculateAllAccountBalances" =>
       ret.outcome = calculateAllAccountBalancesOn(ret.this, accts, transactions)
  /\ ret.op = "calculateAllContactBalances" =>
       ret.outcome =
         calculateAllContactBalancesOn(ret.this, cts, invoices, transactions)
  /\ ret.op = "getAccountTypeSummary" =>
       ret.outcome = Returned(getAccountTypeSummary(accts, balances))
  /\ ret.op = "verifyAccountingEquation" =>
       ret.outcome = verifyAccountingEquationOn(ret.this, accts, balances)

\* C15: calculateAllAccountBalances, calculateAllContactBalances,
\* getAccountTypeSummary and verifyAccountingEquation give the same result on
\* every snapshot that differs from the one passed only in the balance
\* fields stored on the Account and Contact records, or has none stored.
C15_StoredBalancesAreIgnored ==
  /\ \A accts \in Restored(accounts), cts \in Restored(contacts) :
       SameOutcome(accts, cts)
  /\ SameOutcome(Unstored(accounts), Unstored(contacts))

\* C15 witness: an asset account stored with balance 700 and debited 200 by
\* the ledger is given the balance 200.
C15_Witness ==
  /\ ret.op = "calculateAllAccountBalances"
  /\ ret.this = "BalanceEngine"
  /\ Len(accounts) = 1
  /\ accounts[1].type = "asset"
  /\ accounts[1].balance = 700
  /\ Len(transactions) = 1
  /\ ret.outcome = Returned([cash |-> 200])

\* C16: a call leaves the accounts, contacts, invoices and transactions
\* lists and the balances Map as they were passed.
C16_InputsUnchanged ==
  [][(Idle /\ ~Idle') =>
       UNCHANGED <<accounts, contacts, invoices, transactions, balances>>]_vars

\* C16 witness: getAccountTypeSummary returned for an account whose id is
\* not a key of the balances Map, and the Map still has no such key.
C16_Witness ==
  /\ ret.op = "getAccountTypeSummary"
  /\ Len(accounts) = 1
  /\ accounts[1].id \notin DOMAIN balances
  /\ ret.outcome = Returned(EmptySummary)

-----------------------------------------------------------------------------
(* Records that name a missing account or contact, under SpecMiss *)

\* the ids of the records of a list
IdsOf(xs) == {xs[i].id : i \in Positions(xs)}

\* C13: the Map calculateAllAccountBalances returns is the one it returns
\* without any one transaction whose debitAccount and creditAccount are both
\* no id of the accounts list, and the Map calculateAllContactBalances
\* returns is the one it returns without any one invoice or transaction that
\* names a contact id not in the contacts list; both calls return.
C13_SilentMiss ==
  /\ ret.op = "calculateAllAccountBalances" =>
       \A i \in Positions(transactions) :
         (/\ transactions[i].debitAccount \notin IdsOf(accounts)
          /\ transactions[i].creditAccount \notin IdsOf(accounts)) =>
           ret.result
             = calculateAllAccountBalances(accounts, RemoveAt(transactions, i))
  /\ ret.op = "calculateAllContactBalances" =>
       /\ \A i \in Positions(invoices) :
            invoices[i].customerId \notin IdsOf(contacts) =>
              ret.result
                = calculateAllContactBalances(
                    contacts, RemoveAt(invoices, i), transactions)
       /\ \A i \in Positions(transactions) :
            transactions[i].contact \notin IdsOf(contacts) =>
              ret.result
                = calculateAllContactBalances(
                    contacts, invoices, RemoveAt(transactions, i))

\* C13 witness: one asset account "cash", a posting between two accounts that
\* are not in the list and a posting that debits cash; the Map holds the one
\* debit.
C13_Witness ==
  /\ ret.op = "calculateAllAccountBalances"
  /\ Len(accounts) = 1
  /\ accounts[1].type = "asset"
  /\ Len(transactions) = 2
  /\ transactions[1].debitAccount = "ghost"
  /\ transactions[1].creditAccount = "revenue"
  /\ transactions[2].debitAccount = "cash"
  /\ transactions[2].creditAccount = "ghost"
  /\ ret.result = [cash |-> 200]

-----------------------------------------------------------------------------
(* calculateAllAccountBalances called more than once, under SpecTwice *)

-----------------------------------------------------------------------------
(* Calls of several callers, under SpecCallers *)

\* the result of the call of a frame, run alone on its arguments
Alone(frame) ==
  CASE frame.op = "calculateAccountBalance" ->
         calculateAccountBalance(frame.args.accountId, frame.args.accountType,
                                 frame.args.transactions)
    [] frame.op = "calculateCustomerBalance" ->
         calculateCustomerBalance(frame.args.customerId, frame.args.invoices,
                                  frame.args.transactions)
    [] frame.op = "calculateVendorBalance" ->
         calculateVendorBalance(frame.args.vendorId, frame.args.transactions)
    [] frame.op = "validateTransactionBalance" ->
         validateTransactionBalance(frame.args.transactions)
    [] frame.op = "calculateAllAccountBalances" ->
         calculateAllAccountBalances(frame.args.accounts, frame.args.transactions)
    [] frame.op = "calculateAllContactBalances" ->
         calculateAllContactBalances(frame.args.contacts, frame.args.invoices,
                                     frame.args.transactions)
    [] frame.op = "getAccountTypeSummary" ->
         getAccountTypeSummary(frame.args.accounts, frame.args.balances)
    [] frame.op = "verifyAccountingEquation" ->
         verifyAccountingEquation(frame.args.accounts, frame.args.balances)

\* C17: whatever calls the other caller has run or is in the middle of, and
\* however the steps of the two were interleaved, a call returns the result
\* of that call run alone on its own arguments.
C17_ResultAsIfAlone ==
  \A caller \in Callers :
    frames[caller].pc = "returned" =>
      frames[caller].result = Alone(frames[caller])

\* C17 witness: caller a's calculateAccountBalance of an asset account
\* returned -300 for a credit of 500 and a debit of 200, while caller b is
\* in the middle of the loop of its own calculateAccountBalance, with one
\* debit of 200 added.
C17_Witness ==
  /\ frames["a"].pc = "returned"
  /\ frames["a"].op = "calculateAccountBalance"
  /\ frames["a"].args.accountType = "asset"
  /\ frames["a"].args.transactions = <<PaymentPosting, IncomePosting>>
  /\ frames["a"].result = -300
  /\ frames["b"].pc = "loop"
  /\ frames["b"].op = "calculateAccountBalance"
  /\ frames["b"].args.transactions = <<IncomePosting, IncomePosting>>
  /\ frames["b"].i = 1
  /\ frames["b"].acc = 200

-----------------------------------------------------------------------------
(* Properties of formatCurrency, under SpecCurrency *)

\* the number a digit character stands for
DigitValue(char) == CHOOSE d \in 0..9 : DigitChars[d + 1] = char

RECURSIVE NumberRead(_, _)
\* the number read from a string of digits and commas, after the value so far
NumberRead(value, chars) ==
  IF chars = << >>
    THEN value
    ELSE IF Head(chars) = ","
      THEN NumberRead(value, Tail(chars))
      ELSE NumberRead(10 * value + DigitValue(Head(chars)), Tail(chars))

\* C21: formatCurrency gives an amount and its negation the same string,
\* which is "K" followed by digits and commas only that read as the absolute
\* value in whole units (no fraction digits, no sign).
C21_SignIsDropped ==
  ret.op = "formatCurrency" =>
    /\ ret.result = formatCurrency(0 - ret.amount)
    /\ Head(ret.result) = "K"
    /\ \A i \in 2..Len(ret.result) :
         ret.result[i] = "," \/ \E d \in 1..10 : DigitChars[d] = ret.result[i]
    /\ LET units == NumberRead(0, Tail(ret.result))
           cents == IF ret.amount < 0 THEN 0 - ret.amount ELSE ret.amount
       IN  100 * units - 50 <= cents /\ cents < 100 * units + 50

\* C21 witness: -1,234.56 is shown as "K1,235".
C21_Witness ==
  /\ ret.op = "formatCurrency"
  /\ ret.amount = -123456
  /\ ret.result = <<"K", "1", ",", "2", "3", "5">>

-----------------------------------------------------------------------------
(* The summary of the ledger-derived balances, under SpecIdentity *)

\* the ids of the accounts are pairwise distinct
DistinctIds ==
  \A i, j \in Positions(accounts) : accounts[i].id = accounts[j].id => i = j

\* every transaction is between accounts of the list
PostedBetweenAccounts ==
  \A i \in Positions(transactions) :
    /\ transactions[i].debitAccount \in IdsOf(accounts)
    /\ transactions[i].creditAccount \in IdsOf(accounts)

\* the types of the accounts the ledger debits or credits
PostedTypes ==
  {accounts[k].type :
     k \in {k \in Positions(accounts) :
              \E i \in Positions(transactions) :
                accounts[k].id \in {transactions[i].debitAccount,
                                    transactions[i].creditAccount}}}

\* C22: for accounts with distinct ids and a ledger posted between them,
\* after every appended transaction the summary of the derived balances
\* has asset + expense = liability + equity + revenue;
\* verifyAccountingEquation reports difference = |revenue - expense| and
\* isBalanced exactly when revenue = expense, which is so when the ledger
\* posts between asset, liability and equity accounts only.
C22_ExtendedIdentity ==
  (ret.op = "ledgerSummary" /\ DistinctIds /\ PostedBetweenAccounts) =>
    LET s == ret.summary
    IN  /\ s["asset"] + s["expense"]
             = s["liability"] + s["equity"] + s["revenue"]
        /\ ret.equation.difference = Abs(s["revenue"] - s["expense"])
        /\ ret.equation.isBalanced <=> s["revenue"] = s["expense"]
        /\ PostedTypes \subseteq {"asset", "liability", "equity"} =>
             ret.equation.isBalanced

\* C22 witness: a sale of 500 for cash and a refund of 200: asset 300 and
\* revenue 300, so the difference is 300 and the equation is not balanced.
C22_Witness ==
  /\ ret.op = "ledgerSummary"
  /\ Len(accounts) = 2
  /\ accounts[1] = [id |-> "cash", type |-> "asset", balance |-> Undefined]
  /\ accounts[2] = [id |-> "sales", type |-> "revenue", balance |-> Undefined]
  /\ Len(transactions) = 2
  /\ transactions[1].debitAccount = "cash"
  /\ transactions[1].creditAccount = "sales"
  /\ transactions[2].debitAccount = "sales"
  /\ transactions[2].creditAccount = "cash"
  /\ transactions[1].amount = 500
  /\ transactions[2].amount = 200
  /\ ret.summary["asset"] = 300
  /\ ret.summary["revenue"] = 300
  /\ ret.equation.difference = 300
  /\ ~ret.equation.isBalanced

-----------------------------------------------------------------------------
(* The exports called as plain functions, under SpecExports *)

\* how the call that returned ends when it is made on the class
OnClass ==
  CASE ret.op = "calculateAccountBalance" ->
         Returned(calculateAccountBalance(ret.accountId, ret.accountType,
                                          transactions))
    [] ret.op = "calculateCustomerBalance" ->
         Returned(calculateCustomerBalance(ret.customerId, invoices, transactions))
    [] ret.op = "calculateVendorBalance" ->
         Returned(calculateVendorBalance(ret.vendorId, transactions))
    [] ret.op = "validateTransactionBalance" ->
         Returned(validateTransactionBalance(transactions))
    [] ret.op = "calculateAllAccountBalances" ->
         calculateAllAccountBalancesOn("BalanceEngine", accounts, transactions)
    [] ret.op = "calculateAllContactBalances" ->
         calculateAllContactBalancesOn("BalanceEngine", contacts, invoices,
                                       transactions)
    [] ret.op = "getAccountTypeSummary" ->
         Returned(getAccountTypeSummary(accounts, balances))
    [] ret.op = "verifyAccountingEquation" ->
         verifyAccountingEquationOn("BalanceEngine", accounts, balances)

\* C23: an export called as a plain function, without the BalanceEngine
\* receiver, returns what the static method returns when called on the class.
C23_ExportsAgreeWithClass ==
  (~Idle /\ ret.this = Undefined) =>
    /\ ret.outcome.threw = OnClass.threw
    /\ ~ret.outcome.threw => ret.outcome.value = OnClass.value

-----------------------------------------------------------------------------
(* The payments of calculateVendorBalance, under SpecVendor *)

\* what one transaction adds to the balance of the vendor: nothing when it
\* is not of the vendor; for a transaction of the vendor, an expense that
\* mentions a payment is added and subtracted, another expense is added, a
\* transaction of another type that mentions a payment is subtracted
VendorContribution(txn, vendorId) ==
  IF ~(txn.contact = vendorId /\ txn.contactType = "vendor")
    THEN 0
    ELSE IF MentionsPayment(txn.description)
      THEN (IF txn.type = "expense" THEN 0 ELSE 0 - txn.amount)
      ELSE (IF txn.type = "expense" THEN txn.amount ELSE 0)

RECURSIVE VendorContributions(_, _)
\* the contributions of the first n transactions
VendorContributions(n, vendorId) ==
  IF n = 0
    THEN 0
    ELSE VendorContributions(n - 1, vendorId)
           + VendorContribution(transactions[n], vendorId)

\* C24: the balance of a vendor is the sum, over the transactions, of what
\* each contributes: an expense of the vendor that mentions "payment" (in
\* any letter case) net 0, an income or transfer of the vendor that mentions
\* it -amount, another expense of the vendor +amount.
C24_PaymentOfAnyTypeIsSubtracted ==
  ret.op = "calculateVendorBalance" =>
    ret.result = VendorContributions(Len(transactions), ret.vendorId)

\* C24 witness: an expense "PAYMENT due" and an income "Payment" of the
\* vendor, all amounts positive: the first nets 0 and the balance is
\* negative.
C24_Witness ==
  /\ ret.op = "calculateVendorBalance"
  /\ Len(transactions) = 2
  /\ \A i \in {1, 2} :
       /\ transactions[i].contact = ret.vendorId
       /\ transactions[i].contactType = "vendor"
       /\ MentionsPayment(transactions[i].description)
  /\ transactions[1].type = "expense"
  /\ transactions[1].description[2] = "A"
  /\ transactions[1].amount = 500
  /\ transactions[2].type = "income"
  /\ transactions[2].amount = 200
  /\ ret.result = -200

-----------------------------------------------------------------------------
(* Paid invoices and recorded payments, under SpecCustomer *)

\* C25: marking one unpaid invoice of the customer as paid lowers the
\* customer's balance by the amount of that invoice, whatever the income
\* transactions; when every invoice of the customer is paid the balance is
\* minus the sum of the customer's income transactions.
C25_PaidInvoicesCountNothing ==
  ret.op = "calculateCustomerBalance" =>
    /\ \A i \in Positions(invoices) :
         (invoices[i].customerId = ret.customerId /\ invoices[i].status # "paid") =>
           calculateCustomerBalance(
             ret.customerId, [invoices EXCEPT ![i].status = "paid"], transactions)
             = ret.result - invoices[i].amount
    /\ (\A i \in Positions(invoices) :
          invoices[i].customerId = ret.customerId => invoices[i].status = "paid") =>
         ret.result = 0 - AmountOver(IncomeOf(ret.customerId), transactions)

\* C25 witness: an invoice of 200 marked paid and its payment of 200
\* recorded as income: the balance of the customer is -200.
C25_Witness ==
  /\ ret.op = "calculateCustomerBalance"
  /\ Len(invoices) = 1
  /\ invoices[1].customerId = ret.customerId
  /\ invoices[1].status = "paid"
  /\ invoices[1].amount = 200
  /\ IncomeOf(ret.customerId) = {1}
  /\ transactions[1].amount = 200
  /\ ret.result = -200

-----------------------------------------------------------------------------
(* The effect of one more transaction, under SpecAll *)

\* C26: the Map calculateAllAccountBalances returns after a transaction was
\* appended has the keys of the Map before it, and the value before it at
\* every key that is neither the debitAccount nor the creditAccount of that
\* transaction.
C26_AppendIsLocal ==
  (ret.op = "calculateAllAccountBalances" /\ Len(transactions) > 0) =>
    LET appended == Last(transactions)
        before == calculateAllAccountBalances(accounts, Front(transactions))
    IN  /\ DOMAIN ret.result = DOMAIN before
        /\ \A id \in DOMAIN before :
             id \notin {appended.debitAccount, appended.creditAccount} =>
               ret.result[id] = before[id]

\* C26 witness: accounts cash and revenue, and one posting from an account
\* that is not listed to cash: cash changes, revenue keeps its 0.
C26_Witness ==
  /\ ret.op = "calculateAllAccountBalances"
  /\ Len(accounts) = 2
  /\ accounts[1].id = "cash"
  /\ accounts[1].type = "asset"
  /\ accounts[2].id = "revenue"
  /\ Len(transactions) = 1
  /\ transactions[1].debitAccount = "ghost"
  /\ transactions[1].creditAccount = "cash"
  /\ transactions[1].amount = 500
  /\ ret.result = [cash |-> -500, revenue |-> 0]

-----------------------------------------------------------------------------
(* The order of the records, under SpecOrder *)

\* the lists with the records of xs in every order
Reorderings(xs) ==
  { [i \in Positions(xs) |-> xs[order[i]]] :
      order \in {f \in [Positions(xs) -> Positions(xs)] :
                   \A i, j \in Positions(xs) : f[i] = f[j] => i = j} }

\* C27: calculateAccountBalance, calculateCustomerBalance,
\* calculateVendorBalance and validateTransactionBalance return the same
\* value for every order of the transactions and of the invoices (amounts
\* are exact cents).
C27_OrderDoesNotMatter ==
  \A txns \in Reorderings(transactions) :
    /\ ret.op = "calculateAccountBalance" =>
         ret.result
           = calculateAccountBalance(ret.accountId, ret.accountType, txns)
    /\ ret.op = "validateTransactionBalance" =>
         ret.result = validateTransactionBalance(txns)
    /\ ret.op = "calculateVendorBalance" =>
         ret.result = calculateVendorBalance(ret.vendorId, txns)
    /\ ret.op = "calculateCustomerBalance" =>
         \A invs \in Reorderings(invoices) :
           ret.result = calculateCustomerBalance(ret.customerId, invs, txns)

\* C27 witness: the balance of the asset account cash over three postings
\* that debit it, the amounts 200, 500 and 200 in that order.
C27_Witness ==
  /\ ret.op = "calculateAccountBalance"
  /\ ret.accountId = "cash"
  /\ ret.accountType = "asset"
  /\ Len(transactions) = 3
  /\ transactions[1].amount = 200
  /\ transactions[2].amount = 500
  /\ transactions[3].amount = 200
  /\ transactions[1].contactType # transactions[2].contactType
  /\ ret.result = 900

-----------------------------------------------------------------------------
(* createInvoice and deleteInvoice, under SpecInvoices *)

\* C28: a createInvoice call with valid form data succeeds, after any
\* sequence of createInvoice and deleteInvoice calls of the users: the
\* number it generates is the invoiceNumber of no stored invoice.
C28_CreateInvoiceSucceeds ==
  ret.op = "createInvoice" => ret.result.success

\* C29: a deleteInvoice call for an id that names no invoice of the calling
\* user returns {success: false, error: "Failed to delete invoice"} and
\* leaves the invoices and invoice_items tables as they were; a call for an
\* invoice of the caller removes that invoice and all its items, and nothing
\* else.
C29_DeleteIsAllOrNothing ==
  [][(Idle /\ ret'.op = "deleteInvoice") =>
       LET owned == {row \in invoicesTable :
                       row.id = ret'.id /\ row.userId = ret'.userId}
       IN  IF owned = {}
             THEN /\ ret'.result = [success |-> FALSE,
                                    error |-> "Failed to delete invoice"]
                  /\ UNCHANGED <<invoicesTable, invoiceItemsTable>>
             ELSE /\ ret'.result.success
                  /\ invoicesTable' = invoicesTable \ owned
                  /\ invoiceItemsTable'
                       = {item \in invoiceItemsTable : item.invoiceId # ret'.id}]_vars

\* C29 witness: a user's deleteInvoice of another user's invoice failed, and
\* the invoice and its two items are stored.
C29_Witness ==
  /\ ret.op = "deleteInvoice"
  /\ ~ret.result.success
  /\ \E row \in invoicesTable :
       /\ row.id = ret.id
       /\ row.userId # ret.userId
       /\ Cardinality({item \in invoiceItemsTable : item.invoiceId = row.id}) = 2

====
